---- MODULE Spec2Model ----
(***************************************************************************)
(* Model of src/main.py: the article recommendation tool.                  *)
(*                                                                         *)
(* main() checks the OPENAI_API_KEY credential, builds a three-node graph  *)
(* (collect_history -> generate_recommendations -> display_results -> END) *)
(* and invokes it once on a fresh ArticleState.                            *)
(*                                                                         *)
(* Text is modelled as a sequence of characters (one-character strings),   *)
(* so that str.lower, str.join and str.split are computed, not assumed.    *)
(* Fixed prompt text is abbreviated to a single token.                     *)
(***************************************************************************)
EXTENDS Integers, Sequences, FiniteSets, TLC

VARIABLES
    pc,               \* position of the single thread of control
    env_key,          \* value of os.getenv("OPENAI_API_KEY")
    read_articles,    \* ArticleState.read_articles
    recommendations,  \* ArticleState.recommendations
    entered,          \* values returned by Prompt.ask so far, in order
    requests,         \* completion requests sent by chain.invoke, in order
    completion,       \* texts returned by chain.invoke, in order
    console,          \* arguments of console.print so far, in order
    returned,         \* graph nodes that have returned, in order
    exc,              \* the exception raised, if any
    outcome           \* how main() ended

vars == <<pc, env_key, read_articles, recommendations, entered, requests,
          completion, console, returned, exc, outcome>>

----------------------------------------------------------------------------
(* Bounds *)

MaxInputs == 2
MaxCompLen == 5
MaxPresenterRuns == 2

----------------------------------------------------------------------------
(* Text *)

NL == "\n"
Str4(a, b, c, d) == <<a, b, c, d>>
done == Str4("d", "o", "n", "e")
BlankLine == <<NL, NL>>

\* str.lower, on the characters the model uses
LowerChar(c) ==
    CASE c = "D" -> "d"
      [] c = "O" -> "o"
      [] c = "N" -> "n"
      [] c = "E" -> "e"
      [] OTHER -> c

RECURSIVE lower(_)
lower(s) == IF s = <<>> THEN <<>> ELSE <<LowerChar(Head(s))>> \o lower(Tail(s))

\* sep.join(parts)
RECURSIVE Join(_, _)
Join(parts, sep) ==
    IF parts = <<>> THEN <<>>
    ELSE IF Len(parts) = 1 THEN parts[1]
    ELSE parts[1] \o sep \o Join(Tail(parts), sep)

\* s.find(sep) + 1: position of the leftmost occurrence of sep in s, 0 if none
Find(s, sep) ==
    LET hits == {i \in 1..(Len(s) - Len(sep) + 1) :
                    SubSeq(s, i, i + Len(sep) - 1) = sep}
    IN  IF hits = {} THEN 0 ELSE CHOOSE i \in hits : \A j \in hits : i <= j

\* s.split(sep)
RECURSIVE Split(_, _)
Split(s, sep) ==
    LET i == Find(s, sep)
    IN  IF i = 0 THEN <<s>>
        ELSE <<SubSeq(s, 1, i - 1)>> \o Split(SubSeq(s, i + Len(sep), Len(s)), sep)

AllStrings(alphabet, n) == UNION {[1..k -> alphabet] : k \in 0..n}

----------------------------------------------------------------------------
(* Inputs *)

\* lines a user may type at the prompt
Lines ==
    { done,
      Str4("D", "O", "N", "E"),
      Str4("D", "o", "n", "e"),
      <<>>,
      <<"a">>,
      <<"d", "o", "n", "e", "s">> }

\* texts the model endpoint may return
CompletionAlphabet == {"A", "B", NL}
ExampleCompletion == <<"A", NL, NL, "B", NL, NL, "C">>
Completions == AllStrings(CompletionAlphabet, MaxCompLen) \cup {ExampleCompletion}

\* values of the credential variable: unset, set to "", set to a key
NoKey == [set |-> FALSE, val |-> <<>>]
EnvValues == {NoKey, [set |-> TRUE, val |-> <<>>], [set |-> TRUE, val |-> <<"k">>]}

----------------------------------------------------------------------------
(* The program *)

END == "END"
NoExc == [kind |-> "none", at |-> "none"]

Printed(kind, n, text) == [kind |-> kind, n |-> n, text |-> text]

\* class ArticleState
ArticleState == [read_articles |-> <<>>, recommendations |-> <<>>]

\* builtin exception hierarchy: what `except Exception` catches
IsExceptionNarrow(kind) == kind \in {"EOFError"}
IsException(kind) == kind \in {"EOFError", "APIError"}

\* `not os.getenv("OPENAI_API_KEY")`
KeyMissingNever(v) == FALSE
KeyMissing(v) == ~v.set \/ v.val = <<>>

\* `article.lower() == "done"`
IsSentinelCaseSensitive(article) == article = done
IsSentinel(article) == lower(article) = done

\* the loop body of collect_history: what becomes of read_articles
AppendAlways(articles, article) == Append(articles, article)
AppendFront(articles, article) == <<article>> \o articles
AppendArticle(articles, article) ==
    IF IsSentinel(article) THEN articles ELSE Append(articles, article)

\* `lambda x: "\n".join(x.read_articles)`
HistoryTextSpaces(articles) == Join(articles, <<" ">>)
HistoryText(articles) == Join(articles, <<NL>>)

\* the ("user", ...) message of the prompt template
UserMessage(history) == <<"HISTORY:", NL>> \o history \o <<NL, NL, "SUGGEST3">>

Request(articles) == [system |-> "SYSTEM", user |-> UserMessage(HistoryText(articles))]

\* `recommendations.split("\n\n")`
SplitLines(text) == Split(text, <<NL>>)
SplitNonEmpty(text) == SelectSeq(Split(text, BlankLine), LAMBDA b : b # <<>>)
SplitRecommendations(text) == Split(text, BlankLine)

\* workflow.add_node / add_edge / set_entry_point
build_graph_skip_display ==
    [entry |-> "collect_history",
     edges |-> [collect_history |-> "generate_recommendations",
                generate_recommendations |-> END,
                display_results |-> END]]
build_graph ==
    [entry |-> "collect_history",
     edges |-> [collect_history |-> "generate_recommendations",
                generate_recommendations |-> "display_results",
                display_results |-> END]]

\* what display_results prints for a recommendation list
RECURSIVE Sections(_, _)
Sections(recs, i) ==
    IF i > Len(recs) THEN <<>>
    ELSE <<Printed("label", i, <<>>), Printed("body", 0, recs[i])>> \o Sections(recs, i + 1)

Init ==
    /\ pc = "main"
    /\ env_key \in EnvValues
    /\ read_articles = <<>>
    /\ recommendations = <<>>
    /\ entered = <<>>
    /\ requests = <<>>
    /\ completion = <<>>
    /\ console = <<>>
    /\ returned = <<>>
    /\ exc = NoExc
    /\ outcome = "running"

\* main: the credential is missing, print the two messages and return
main_no_key ==
    /\ pc = "main"
    /\ KeyMissing(env_key)
    /\ console' = console \o <<Printed("key_error", 0, <<>>), Printed("key_hint", 0, <<>>)>>
    /\ pc' = "exit"
    /\ outcome' = "early_return"
    /\ UNCHANGED <<env_key, read_articles, recommendations, entered, requests,
                   completion, returned, exc>>

\* main: build the graph and invoke it on a fresh ArticleState
main_invoke ==
    /\ pc = "main"
    /\ ~KeyMissing(env_key)
    /\ read_articles' = ArticleState.read_articles
    /\ recommendations' = ArticleState.recommendations
    /\ pc' = build_graph.entry
    /\ UNCHANGED <<env_key, entered, requests, completion, console, returned,
                   exc, outcome>>

\* collect_history: the banner printed before the loop
collect_banner ==
    /\ pc = "collect_history"
    /\ console' = Append(console, Printed("banner", 0, <<>>))
    /\ pc' = "prompt"
    /\ UNCHANGED <<env_key, read_articles, recommendations, entered, requests,
                   completion, returned, exc, outcome>>

\* collect_history: one iteration of the loop, on the line Prompt.ask returns
collect_history ==
    /\ pc = "prompt"
    /\ \E article \in Lines :
        /\ IsSentinel(article) \/ Len(entered) < MaxInputs
        /\ entered' = Append(entered, article)
        /\ read_articles' = AppendArticle(read_articles, article)
        /\ IF IsSentinel(article)
           THEN /\ pc' = build_graph.edges["collect_history"]
                /\ returned' = Append(returned, "collect_history")
           ELSE /\ pc' = "prompt"
                /\ UNCHANGED returned
    /\ UNCHANGED <<env_key, recommendations, requests, completion, console,
                   exc, outcome>>

\* collect_history: Prompt.ask raises (end of input, or Ctrl-C)
collect_raise ==
    /\ pc = "prompt"
    /\ \E kind \in {"EOFError", "KeyboardInterrupt"} :
        exc' = [kind |-> kind, at |-> "collect_history"]
    /\ pc' = "except"
    /\ UNCHANGED <<env_key, read_articles, recommendations, entered, requests,
                   completion, console, returned, outcome>>

\* generate_recommendations: chain.invoke returns a completion
generate_recommendations ==
    /\ pc = "generate_recommendations"
    /\ \E text \in Completions :
        /\ completion' = Append(completion, text)
        /\ recommendations' = SplitRecommendations(text)
    /\ requests' = Append(requests, Request(read_articles))
    /\ returned' = Append(returned, "generate_recommendations")
    /\ pc' = build_graph.edges["generate_recommendations"]
    /\ UNCHANGED <<env_key, read_articles, entered, console, exc, outcome>>

\* generate_recommendations: chain.invoke raises
generate_raise ==
    /\ pc = "generate_recommendations"
    /\ \E kind \in {"APIError", "KeyboardInterrupt"} :
        exc' = [kind |-> kind, at |-> "generate_recommendations"]
    /\ requests' = Append(requests, Request(read_articles))
    /\ pc' = "except"
    /\ UNCHANGED <<env_key, read_articles, recommendations, entered, completion,
                   console, returned, outcome>>

\* the body of display_results
display_consuming ==
    /\ console' = console \o <<Printed("header", 0, <<>>)>> \o Sections(recommendations, 1)
    /\ recommendations' = <<>>
    /\ UNCHANGED read_articles
display_body ==
    /\ console' = console \o <<Printed("header", 0, <<>>)>> \o Sections(recommendations, 1)
    /\ UNCHANGED <<read_articles, recommendations>>

\* display_results, as a node of the graph
display_results ==
    /\ pc = "display_results"
    /\ display_body
    /\ returned' = Append(returned, "display_results")
    /\ pc' = build_graph.edges["display_results"]
    /\ UNCHANGED <<env_key, entered, requests, completion, exc, outcome>>

\* main: graph.invoke returned, fall off the end of the try block
main_return ==
    /\ pc = END
    /\ pc' = "exit"
    /\ outcome' = "normal"
    /\ UNCHANGED <<env_key, read_articles, recommendations, entered, requests,
                   completion, console, returned, exc>>

\* main: `except Exception as e`
main_except ==
    /\ pc = "except"
    /\ pc' = "exit"
    /\ IF IsException(exc.kind)
       THEN /\ console' = Append(console, Printed("error", 0, <<exc.kind>>))
            /\ outcome' = "handled"
       ELSE /\ outcome' = "propagated"
            /\ UNCHANGED console
    /\ UNCHANGED <<env_key, read_articles, recommendations, entered, requests,
                   completion, returned, exc>>

Next ==
    \/ main_no_key
    \/ main_invoke
    \/ collect_banner
    \/ collect_history
    \/ collect_raise
    \/ generate_recommendations
    \/ generate_raise
    \/ display_results
    \/ main_return
    \/ main_except

Spec == Init /\ [][Next]_vars

----------------------------------------------------------------------------
(* The presenter on its own: display_results applied repeatedly to one     *)
(* state, whose recommendation list is any split of a completion.          *)

InitPresenter ==
    /\ pc = "display_results"
    /\ env_key \in {[set |-> TRUE, val |-> <<"k">>]}
    /\ read_articles \in {<<>>, << <<"a">> >>}
    /\ completion \in {<<text>> : text \in Completions}
    /\ recommendations = SplitRecommendations(completion[1])
    /\ entered = <<>>
    /\ requests = <<>>
    /\ console = <<>>
    /\ returned = <<>>
    /\ exc = NoExc
    /\ outcome = "running"

presenter_run ==
    /\ pc = "display_results"
    /\ Len(returned) < MaxPresenterRuns
    /\ display_body
    /\ returned' = Append(returned, "display_results")
    /\ UNCHANGED <<pc, env_key, entered, requests, completion, exc, outcome>>

NextPresenter == presenter_run

SpecPresenter == InitPresenter /\ [][NextPresenter]_vars

----------------------------------------------------------------------------
(* Properties *)

Range(f) == {f[i] : i \in DOMAIN f}
IsPrefix(s, t) == Len(s) <= Len(t) /\ SubSeq(t, 1, Len(s)) = s
Path == <<"collect_history", "generate_recommendations", "display_results">>

\* every spelling of the sentinel, written out letter by letter
DoneVariants ==
    {s \in [1..4 -> {"d", "D", "o", "O", "n", "N", "e", "E"}] :
        /\ s[1] \in {"d", "D"}
        /\ s[2] \in {"o", "O"}
        /\ s[3] \in {"n", "N"}
        /\ s[4] \in {"e", "E"}}

\* the lines of a log that precede its first sentinel
BeforeSentinel(log) ==
    LET stops == {i \in DOMAIN log : log[i] \in DoneVariants}
        first == IF stops = {} THEN Len(log) + 1
                 ELSE CHOOSE i \in stops : \A j \in stops : i <= j
    IN  SubSeq(log, 1, first - 1)

\* the first n parts, each pair of neighbours separated by sep
RECURSIVE Glued(_, _, _)
Glued(parts, n, sep) ==
    IF n = 0 THEN <<>>
    ELSE IF n = 1 THEN parts[1]
    ELSE Glued(parts, n - 1, sep) \o sep \o parts[n]

HasBlankLine(s) == \E i \in 1..(Len(s) - 1) : s[i] = NL /\ s[i + 1] = NL
EndsWithNewline(s) == s # <<>> /\ s[Len(s)] = NL

CollectorReturned == "collect_history" \in Range(returned)
GeneratorReturned == "generate_recommendations" \in Range(returned)
PresenterReturned == "display_results" \in Range(returned)

\* C1: when OPENAI_API_KEY is absent, no completion request is ever sent, no
\* line is read, no graph node runs or returns, no exception is raised, and
\* main ends by the early return.
C1_NoKeyEarlyReturn ==
    ~env_key.set =>
        /\ requests = <<>>
        /\ completion = <<>>
        /\ entered = <<>>
        /\ returned = <<>>
        /\ exc = NoExc
        /\ pc \in {"main", "exit"}
        /\ pc = "main" => outcome = "running"
        /\ pc = "exit" => outcome = "early_return"

C1_Witness == ~env_key.set /\ pc = "exit" /\ outcome = "early_return"

\* C2: once collect_history has returned, read_articles is exactly the lines
\* entered before the first sentinel, in input order, and the sentinel is
\* the one further line that was read; while the loop runs, read_articles
\* is exactly the lines entered so far.
C2_HistoryIsInput ==
    /\ CollectorReturned =>
        /\ read_articles = BeforeSentinel(entered)
        /\ Len(entered) = Len(read_articles) + 1
    /\ pc = "prompt" => read_articles = entered

C2_Witness ==
    /\ CollectorReturned
    /\ Len(read_articles) = 2
    /\ read_articles[1] # read_articles[2]

\* C3: a line spelling "done" in any mix of upper and lower case ends the
\* loop (it is the last line read and the prompt is not asked again), and
\* read_articles never holds such a line.
C3_SentinelNeverRecorded ==
    /\ \A i \in DOMAIN read_articles : read_articles[i] \notin DoneVariants
    /\ \A i \in DOMAIN entered :
        entered[i] \in DoneVariants => i = Len(entered) /\ pc # "prompt"

C3_Witness ==
    /\ pc = "generate_recommendations"
    /\ entered[Len(entered)] = Str4("D", "O", "N", "E")
    /\ Len(read_articles) = 1

\* C4: the nodes return in the order collect_history,
\* generate_recommendations, display_results, each at most once; a node is
\* running only when exactly the nodes before it have returned; a run that
\* reaches END has run all three.
C4_FixedOrder ==
    /\ IsPrefix(returned, Path)
    /\ pc \in {"collect_history", "prompt"} => returned = <<>>
    /\ pc = "generate_recommendations" => returned = SubSeq(Path, 1, 1)
    /\ pc = "display_results" => returned = SubSeq(Path, 1, 2)
    /\ (pc = END \/ outcome = "normal") => returned = Path

C4_Witness == outcome = "normal" /\ returned = Path

\* C5: recommendations is empty in every state in which
\* generate_recommendations has not returned, and every step taken while
\* collect_history runs keeps the old read_articles as a prefix of the new.
C5_StateInvariant ==
    [][ /\ ~GeneratorReturned => recommendations = <<>>
        /\ ~GeneratorReturned' => recommendations' = <<>>
        /\ pc \in {"collect_history", "prompt"} => IsPrefix(read_articles, read_articles')
      ]_vars

C5_Witness ==
    /\ pc = "prompt"
    /\ Len(read_articles) = 2
    /\ read_articles[1] # read_articles[2]
    /\ recommendations = <<>>

\* C6: when the completion call fails with an API error, exactly one
\* request was sent, no completion and no recommendation is kept,
\* display_results never runs, and main catches the error, prints it and
\* ends without the error leaving main.
C6_FailureIsCaught ==
    exc.kind = "APIError" =>
        /\ exc.at = "generate_recommendations"
        /\ Len(requests) = 1
        /\ completion = <<>>
        /\ recommendations = <<>>
        /\ ~GeneratorReturned /\ ~PresenterReturned
        /\ \A i \in DOMAIN console : console[i].kind \notin {"header", "label", "body"}
        /\ pc \in {"except", "exit"}
        /\ pc = "except" => outcome = "running"
        /\ pc = "exit" =>
            /\ outcome = "handled"
            /\ console[Len(console)] = Printed("error", 0, <<"APIError">>)

C6_Witness == exc.kind = "APIError" /\ pc = "exit" /\ outcome = "handled"

\* C7: at most one completion request is sent; it is sent only by
\* generate_recommendations, after collect_history has returned; it carries
\* the fixed system text, and its user message embeds the read_articles
\* entries in collection order with one newline between neighbours.
C7_OneRequest ==
    /\ Len(requests) <= 1
    /\ requests # <<>> =>
        /\ CollectorReturned
        /\ GeneratorReturned \/ exc.at = "generate_recommendations"
        /\ requests[1].system = "SYSTEM"
        /\ requests[1].user =
              <<"HISTORY:", NL>>
                \o Glued(BeforeSentinel(entered), Len(BeforeSentinel(entered)), <<NL>>)
                \o <<NL, NL, "SUGGEST3">>
        /\ requests[1].user =
              <<"HISTORY:", NL>>
                \o Glued(read_articles, Len(read_articles), <<NL>>)
                \o <<NL, NL, "SUGGEST3">>
    /\ (GeneratorReturned \/ exc.at = "generate_recommendations") => Len(requests) = 1

C7_Witness ==
    /\ Len(requests) = 1
    /\ GeneratorReturned
    /\ Len(read_articles) = 2
    /\ read_articles[1] # read_articles[2]

\* C8: after generate_recommendations, recommendations is the blocks of the
\* completion in order: gluing them with blank lines gives the completion
\* back, no block holds a blank line, and each separator is the leftmost
\* blank line after the previous block; "A\n\nB\n\nC" gives A, B, C. After
\* display_results the console holds, after the banner and the header, one
\* label and one body per block, labelled 1..k, the i-th body being the
\* i-th block.
C8_BlocksAndSections ==
    /\ GeneratorReturned =>
        LET text == completion[1]
            k == Len(recommendations)
        IN  /\ Len(completion) = 1
            /\ k >= 1
            /\ Glued(recommendations, k, BlankLine) = text
            /\ \A i \in 1..k : ~HasBlankLine(recommendations[i])
            /\ \A i \in 1..(k - 1) : ~EndsWithNewline(recommendations[i])
            /\ text = ExampleCompletion =>
                  recommendations = << <<"A">>, <<"B">>, <<"C">> >>
    /\ PresenterReturned =>
        LET k == Len(recommendations)
        IN  /\ Len(console) = 2 + 2 * k
            /\ console[1] = Printed("banner", 0, <<>>)
            /\ console[2] = Printed("header", 0, <<>>)
            /\ \A i \in 1..k :
                /\ console[2 * i + 1] = Printed("label", i, <<>>)
                /\ console[2 * i + 2] = Printed("body", 0, recommendations[i])

C8_Witness ==
    /\ PresenterReturned
    /\ completion = << <<"A", NL, NL, "B">> >>
    /\ recommendations = << <<"A">>, <<"B">> >>
    /\ Len(console) = 6

\* C9: every run of display_results leaves read_articles and
\* recommendations unchanged, and every later run prints exactly what the
\* first run printed.
C9_PresenterIdempotent ==
    [][ /\ UNCHANGED <<read_articles, recommendations>>
        /\ LET runs == Len(returned')
               n == Len(console') \div runs
           IN  /\ Len(console') = runs * n
               /\ n > 0
               /\ \A r \in 2..runs :
                    SubSeq(console', (r - 1) * n + 1, r * n) = SubSeq(console', 1, n)
      ]_vars

C9_Witness ==
    /\ Len(returned) = 2
    /\ Len(recommendations) = 2
    /\ Len(console) = 10

\* C10: when the first line entered is the sentinel, read_articles is empty
\* and generate_recommendations still runs next and sends exactly one
\* request, whose history text is empty; the split of the completion has at
\* least one entry (an empty completion gives one empty recommendation), and
\* display_results prints at least one section.
C10_EmptyHistoryStillRuns ==
    (CollectorReturned /\ read_articles = <<>>) =>
        /\ pc \in {"generate_recommendations", "display_results", END, "except", "exit"}
        /\ pc = "exit" => outcome \in {"normal", "handled", "propagated"}
        /\ outcome = "handled" => exc.at = "generate_recommendations"
        /\ pc # "generate_recommendations" =>
            /\ Len(requests) = 1
            /\ requests[1].user = <<"HISTORY:", NL, NL, NL, "SUGGEST3">>
        /\ GeneratorReturned =>
            /\ Len(recommendations) >= 1
            /\ completion[1] = <<>> => recommendations = << <<>> >>
            /\ pc \in {"display_results", END, "exit"}
        /\ (pc \in {END, "exit"} /\ exc = NoExc) =>
            /\ PresenterReturned
            /\ Len(console) >= 4
            /\ console[3] = Printed("label", 1, <<>>)
            /\ console[4] = Printed("body", 0, recommendations[1])

C10_Witness ==
    /\ read_articles = <<>>
    /\ outcome = "normal"
    /\ completion = << <<>> >>
    /\ Len(console) = 4

====
